---- MODULE Spec2Model ----
(***************************************************************************)
(* Model of run.py: main (resolve, select, download, exit code) and        *)
(* download_asset (directory creation, GET, status check, chunked write).  *)
(* download_asset is split at its suspension points (the awaits) so that a *)
(* transport or I/O fault can strike between any two of them.              *)
(***************************************************************************)
EXTENDS Integers, Sequences, FiniteSets, TLC

\* ---------------------------------------------------------------- bounds
MaxAssets == 3
MaxBody == 3
MaxChoiceLen == 2
\* stands for the 8192 of iter_chunked(8192): the largest chunk delivered
ChunkSize == 2

\* ------------------------------------------------------- program constants
HTTP_OK == 200

\* ------------------------------------------------------------ value sets
Names == {"App_x64.msixbundle", "App_arm.appx"}
\* asset records as msstore.fetch_assets yields them; names may repeat
AssetPool ==
    { [name |-> "App_x64.msixbundle", url |-> "u1"],
      [name |-> "App_arm.appx", url |-> "u2"] }
Statuses == {200, 204, 404, 500}
Chars == {"q", "Q", "x", "-", "0", "1", "2", "3"}
Digits == {"0", "1", "2", "3"}

SeqsUpTo(S, n) == UNION { [1..k -> S] : k \in 0..n }

AssetLists == SeqsUpTo(AssetPool, MaxAssets)
\* the code never looks into the bytes: one body per length, every byte of
\* it different, so that a lost, repeated or misplaced byte shows
Bodies == { [i \in 1..n |-> i] : n \in 0..MaxBody }
Choices == SeqsUpTo(Chars, MaxChoiceLen)

\* content of a file that is at the destination before the run
OldContent == <<77, 77>>
Absent == [exists |-> FALSE, data |-> <<>>]
File(d) == [exists |-> TRUE, data |-> d]

\* Python values of download_asset's result
None == [t |-> "None", v |-> <<>>]
Str(p) == [t |-> "str", v |-> p]
NoValue == [t |-> "unset", v |-> <<>>]
\* truthiness as `if file_path:` evaluates it
Truthy(x) == x.t = "str" /\ x.v # <<>>

NoAsset == [name |-> "", url |-> ""]

\* ----------------------------------------------------------------- paths
\* a path is a sequence of components; a leading "/" makes it absolute
IsAbs(p) == Len(p) > 0 /\ p[1] = "/"
\* os.path.join(a, b)
Join(a, b) == IF IsAbs(b) THEN b ELSE a \o b
\* os.path.dirname(os.path.abspath(__file__))
ScriptDir == <<"/", "opt", "tool">>
AbsDirArg == <<"/", "srv", "out">>
RelDirArg == <<"out">>
\* values of --dir: <<>> stands for None (argparse default)
DirArgs == {<<>>, AbsDirArg, RelDirArg}
\* lines 50-52
EffectiveDir(d) == IF d = <<>> THEN Join(ScriptDir, <<"downloads">>) ELSE d
\* line 59
FilePath(d, asset) == Join(EffectiveDir(d), <<asset.name>>)

\* ------------------------------------------------------- choice parsing
DigitVal(c) == CASE c = "0" -> 0 [] c = "1" -> 1 [] c = "2" -> 2 [] OTHER -> 3

RECURSIVE DigitsVal(_)
DigitsVal(s) ==
    IF s = <<>> THEN 0
    ELSE 10 * DigitsVal(SubSeq(s, 1, Len(s) - 1)) + DigitVal(s[Len(s)])

AllDigits(s) == Len(s) > 0 /\ \A i \in 1..Len(s) : s[i] \in Digits

\* int(choice): ok = FALSE stands for ValueError
PyInt(s) ==
    IF AllDigits(s) THEN [ok |-> TRUE, val |-> DigitsVal(s)]
    ELSE IF Len(s) > 1 /\ s[1] = "-" /\ AllDigits(Tail(s))
         THEN [ok |-> TRUE, val |-> 0 - DigitsVal(Tail(s))]
         ELSE [ok |-> FALSE, val |-> 0]

\* str.lower()
LowerChar(c) == IF c = "Q" THEN "q" ELSE c
Lower(s) == [i \in 1..Len(s) |-> LowerChar(s[i])]

\* line 122
IsQuit(s) == Lower(s) = <<"q">>

\* line 127: 0 <= index < len(assets)
ValidIndex_noLower(index, n) == index < n
ValidIndex(index, n) == 0 <= index /\ index < n

\* assets[index] with Python's negative indexing; inRange = FALSE is IndexError
PyIndex(s, i) ==
    LET j == IF i < 0 THEN Len(s) + i + 1 ELSE i + 1
    IN IF j >= 1 /\ j <= Len(s)
       THEN [inRange |-> TRUE, item |-> s[j]]
       ELSE [inRange |-> FALSE, item |-> NoAsset]

\* line 69
IsSuccess_below400(st) == st < 400
IsSuccess(st) == st = HTTP_OK

VARIABLES
    auto,        \* --auto
    dirArg,      \* --dir
    dirExists,   \* os.path.exists(download_dir)
    dirCreatable,\* whether os.makedirs(download_dir) can succeed
    files,       \* the files of download_dir, by name
    files0,      \* the files of download_dir when the process started
    pc,          \* main's position
    assets,      \* the resolved list
    choice,      \* what Prompt.ask returned
    prompts,     \* number of Prompt.ask calls
    selected,    \* selected_asset
    requested,   \* the assets handed to download_asset, in call order
    ret,         \* main's return value
    exitCode,    \* the process's exit status
    dpc,         \* download_asset's position
    file_path,   \* download_asset's file_path
    status,      \* response.status
    body,        \* the bytes the server sends
    pos,         \* bytes of body delivered so far
    touched,     \* the call opened the destination file for writing
    fault,       \* the failure that struck, if any
    result       \* download_asset's return value

vars == <<auto, dirArg, dirExists, dirCreatable, files, files0, pc, assets,
          choice, prompts, selected, requested, ret, exitCode, dpc, file_path,
          status, body, pos, touched, fault, result>>

envVars == <<auto, dirArg, dirCreatable, files0>>
dlVars == <<dpc, file_path, status, body, pos, touched, result>>
fsVars == <<dirExists, files>>

NoChoice == [eof |-> FALSE, text |-> <<>>]

Init ==
    /\ auto \in BOOLEAN
    /\ dirArg \in DirArgs
    /\ dirExists \in BOOLEAN
    /\ dirCreatable \in BOOLEAN
    /\ (dirExists => dirCreatable)
    /\ files \in [Names -> {Absent, File(OldContent)}]
    /\ (~dirExists => \A n \in Names : files[n] = Absent)
    /\ files0 = files
    /\ pc = "start"
    /\ assets = <<>>
    /\ choice = NoChoice
    /\ prompts = 0
    /\ selected = NoAsset
    /\ requested = <<>>
    /\ ret = FALSE
    /\ exitCode = -1
    /\ dpc = "idle"
    /\ file_path = <<>>
    /\ status = 0
    /\ body = <<>>
    /\ pos = 0
    /\ touched = FALSE
    /\ fault = "none"
    /\ result = NoValue

\* ------------------------------------------------------------------ main
\* line 100: selected_asset = assets[0]
AutoSelect_last(as) == PyIndex(as, -1)
AutoSelect(as) == PyIndex(as, 0)

\* line 92 raises: the backend is unreachable, the URL is not recognised...
\* lines 153-157 turn it into False
MainFetchRaise ==
    /\ pc = "start"
    /\ fault' = "resolution"
    /\ ret' = FALSE
    /\ pc' = "return"
    /\ UNCHANGED <<envVars, fsVars, dlVars, assets, choice, prompts, selected,
                   requested, exitCode>>

\* lines 92-114: fetch, display, and the auto branch up to the download call.
\* The list is taken as fetch_assets yields it, every asset carrying the
\* fields display_assets_table reads, so that the display does not raise.
MainFetchAuto(as) ==
    /\ pc = "start"
    /\ auto
    /\ assets' = as
    /\ IF as # <<>>
       THEN /\ selected' = AutoSelect(as).item
            /\ requested' = Append(requested, AutoSelect(as).item)
            /\ dpc' = "entry"
            /\ pc' = "download"
            /\ UNCHANGED <<ret, fault>>
       ELSE /\ ret' = FALSE
            /\ fault' = "empty"
            /\ pc' = "return"
            /\ UNCHANGED <<selected, requested, dpc>>
    /\ UNCHANGED <<envVars, fsVars, choice, prompts, exitCode, file_path,
                   status, body, pos, touched, result>>

\* lines 92-118: fetch, display, and the prompt text
MainFetchInteractive(as) ==
    /\ pc = "start"
    /\ ~auto
    /\ assets' = as
    /\ pc' = "prompt"
    /\ UNCHANGED <<envVars, fsVars, dlVars, choice, prompts, selected,
                   requested, ret, exitCode, fault>>

\* lines 120, 147-151: Prompt.ask raises EOFError
MainPromptEOF ==
    /\ pc = "prompt"
    /\ choice' = [eof |-> TRUE, text |-> <<>>]
    /\ prompts' = prompts + 1
    /\ ret' = TRUE
    /\ pc' = "return"
    /\ UNCHANGED <<envVars, fsVars, dlVars, assets, selected, requested,
                   exitCode, fault>>

\* lines 120-146: Prompt.ask returns c
MainPrompt(c) ==
    /\ pc = "prompt"
    /\ choice' = [eof |-> FALSE, text |-> c]
    /\ prompts' = prompts + 1
    /\ IF IsQuit(c)
       THEN /\ ret' = TRUE
            /\ pc' = "return"
            /\ UNCHANGED <<selected, requested, dpc, fault>>
       ELSE LET parsed == PyInt(c)
                index == parsed.val - 1
                got == PyIndex(assets, index)
            IN IF parsed.ok /\ ValidIndex(index, Len(assets)) /\ got.inRange
               THEN /\ selected' = got.item
                    /\ requested' = Append(requested, got.item)
                    /\ dpc' = "entry"
                    /\ pc' = "download"
                    /\ UNCHANGED <<ret, fault>>
               ELSE /\ ret' = FALSE
                    /\ fault' = "invalid"
                    /\ pc' = "return"
                    /\ UNCHANGED <<selected, requested, dpc>>
    /\ UNCHANGED <<envVars, fsVars, assets, exitCode, file_path, status, body,
                   pos, touched, result>>

\* lines 104-110 and 133-140: download_asset returned
MainAfterDownload ==
    /\ pc = "download"
    /\ dpc = "returned"
    /\ ret' = Truthy(result)
    /\ pc' = "return"
    /\ UNCHANGED <<envVars, fsVars, dlVars, assets, choice, prompts, selected,
                   requested, exitCode, fault>>

\* lines 153-157: download_asset raised
MainCatch ==
    /\ pc = "download"
    /\ dpc = "raised"
    /\ ret' = FALSE
    /\ pc' = "return"
    /\ UNCHANGED <<envVars, fsVars, dlVars, assets, choice, prompts, selected,
                   requested, exitCode, fault>>

\* lines 175-178
ExitCode_zero(success) == 0
ExitCode(success) == IF success THEN 0 ELSE 1

Exit ==
    /\ pc = "return"
    /\ exitCode' = ExitCode(ret)
    /\ pc' = "exit"
    /\ UNCHANGED <<envVars, fsVars, dlVars, assets, choice, prompts, selected,
                   requested, ret, fault>>

\* -------------------------------------------------------- download_asset
mainVars == <<assets, choice, prompts, selected, requested, ret, exitCode, pc>>

\* lines 50-60: the directory is created when missing; os.makedirs raises
\* outside the try block when it cannot be
DlPrepare ==
    /\ dpc = "entry"
    /\ IF dirExists \/ dirCreatable
       THEN /\ dirExists' = TRUE
            /\ file_path' = FilePath(dirArg, selected)
            /\ dpc' = "get"
            /\ UNCHANGED fault
       ELSE /\ fault' = "localio_dir"
            /\ dpc' = "raised"
            /\ UNCHANGED <<dirExists, file_path>>
    /\ UNCHANGED <<envVars, mainVars, files, status, body, pos,
                   touched, result>>

\* lines 64-68, 79-81: opening the session or the GET fails or times out
DlGetError ==
    /\ dpc = "get"
    /\ fault' = "transport"
    /\ result' = None
    /\ dpc' = "returned"
    /\ UNCHANGED <<envVars, mainVars, fsVars, file_path, status, body, pos, touched>>

\* open(file_path, "wb") on file f
OpenForWrite_append(f) == File(f.data)
OpenForWrite(f) == File(<<>>)

\* lines 68-70, 75-81: the response arrives with status st; canOpen tells
\* whether open(file_path, "wb") succeeds; b is the body the stream holds,
\* which is read only after the file was opened
DlResponse(st, b, canOpen) ==
    /\ dpc = "get"
    /\ status' = st
    /\ body' = IF IsSuccess(st) /\ canOpen THEN b ELSE <<>>
    /\ IF IsSuccess(st)
       THEN IF canOpen
            THEN /\ files' = [files EXCEPT ![selected.name] = OpenForWrite(@)]
                 /\ touched' = TRUE
                 /\ dpc' = "stream"
                 /\ UNCHANGED <<fault, result>>
            ELSE /\ fault' = "localio_file"
                 /\ result' = None
                 /\ dpc' = "returned"
                 /\ UNCHANGED <<files, touched>>
       ELSE /\ fault' = "status"
            /\ result' = None
            /\ dpc' = "returned"
            /\ UNCHANGED <<files, touched>>
    /\ UNCHANGED <<envVars, mainVars, dirExists, file_path, pos>>

\* lines 71-72: a chunk of k bytes arrives and is written
DlChunk(k) ==
    /\ dpc = "stream"
    /\ pos < Len(body)
    /\ k <= Len(body) - pos
    /\ files' = [files EXCEPT ![selected.name] =
                   File(@.data \o SubSeq(body, pos + 1, pos + k))]
    /\ pos' = pos + k
    /\ UNCHANGED <<envVars, mainVars, dirExists, dpc, file_path, status, body,
                   touched, fault, result>>

\* lines 72, 79-81: f.write raises (disk full, device error)
DlWriteFail ==
    /\ dpc = "stream"
    /\ pos < Len(body)
    /\ fault' = "localio_file"
    /\ result' = None
    /\ dpc' = "returned"
    /\ UNCHANGED <<envVars, mainVars, fsVars, file_path, status, body, pos, touched>>

DlStreamError_raises ==
    /\ dpc = "stream"
    /\ fault' = "transport"
    /\ dpc' = "raised"
    /\ UNCHANGED <<envVars, mainVars, fsVars, file_path, status, body, pos, touched, result>>

\* lines 71, 79-81: the connection is reset or the total timeout expires
\* while the next chunk (or the end of the body) is awaited
DlStreamError ==
    /\ dpc = "stream"
    /\ fault' = "transport"
    /\ result' = None
    /\ dpc' = "returned"
    /\ UNCHANGED <<envVars, mainVars, fsVars, file_path, status, body, pos, touched>>

\* lines 71-74: the body ended
DlEof ==
    /\ dpc = "stream"
    /\ pos = Len(body)
    /\ result' = Str(file_path)
    /\ dpc' = "returned"
    /\ UNCHANGED <<envVars, mainVars, fsVars, file_path, status, body, pos, touched, fault>>

Next ==
    \/ MainFetchRaise
    \/ \E as \in AssetLists : MainFetchAuto(as)
    \/ \E as \in AssetLists : MainFetchInteractive(as)
    \/ MainPromptEOF
    \/ \E c \in Choices : MainPrompt(c)
    \/ MainAfterDownload
    \/ MainCatch
    \/ Exit
    \/ DlPrepare
    \/ DlGetError
    \/ \E st \in Statuses, b \in Bodies, canOpen \in BOOLEAN : DlResponse(st, b, canOpen)
    \/ \E k \in 1..ChunkSize : DlChunk(k)
    \/ DlWriteFail
    \/ DlStreamError
    \/ DlEof

Spec == Init /\ [][Next]_vars

\* ---------------------------------------------------------------- claims
DlFailed == dpc = "returned" /\ result = None
DlSucceeded == dpc = "returned" /\ Truthy(result)
Dest == files[selected.name]
Dest0 == files0[selected.name]

\* C1: when the response status is not 200, download_asset returns None and
\* the call neither creates, truncates nor writes any file: the destination
\* directory's files are what they were before the call.
C1_Non200NoWrite ==
    (status # 0 /\ status # HTTP_OK) =>
        /\ dpc = "returned"
        /\ result = None
        /\ ~touched
        /\ files = files0

C1_Witness ==
    /\ status = 404
    /\ DlFailed
    /\ Dest0.exists
    /\ Dest = Dest0

\* C2 (as claimed, in the case the claim names): after a download_asset call
\* that ended in a failure outcome because of a transport error that struck
\* after the 200 status and after some but not all bytes were written, no
\* file written by that call is left at the destination path.
C2_NoFileLeftAfterFailure ==
    (DlFailed /\ fault = "transport" /\ pos > 0 /\ pos < Len(body)) =>
        ~(touched /\ Dest.exists)

\* C3: a transport error, at the GET or at any point of the stream, ends
\* download_asset with the return value None; it never leaves download_asset
\* as an exception.
C3_TransportCaught ==
    fault = "transport" => (dpc = "returned" /\ result = None)

C3_Witness ==
    /\ fault = "transport"
    /\ DlFailed
    /\ pos > 0
    /\ pos < Len(body)

\* C4 (as claimed): a local I/O failure, of the directory or of the file,
\* ends download_asset with the return value None and never as an exception.
C4_LocalIOReturnsFailure ==
    fault \in {"localio_dir", "localio_file"} =>
        (dpc = "returned" /\ result = None)

\* C5: when download_asset returns success, the status was 200, the whole
\* body was delivered, and the destination file holds exactly the body's
\* bytes in order, whatever the chunking and whatever was at the path before.
C5_FileEqualsBody ==
    DlSucceeded =>
        /\ status = HTTP_OK
        /\ pos = Len(body)
        /\ Dest = File(body)

C5_Witness ==
    /\ DlSucceeded
    /\ Len(body) > ChunkSize
    /\ Dest0 = File(OldContent)

\* C6 (as claimed): whenever download_asset returns success, the returned
\* path is absolute, for every --dir.
C6_ReturnsAbsolutePath ==
    DlSucceeded => IsAbs(result.v)

\* C7: in auto mode at most one download is started, it is for assets[0],
\* the destination file is named assets[0].name, no file of another name is
\* touched, and with a non-empty list the run ends with exactly one download
\* started.
C7_AutoFirstOnly ==
    auto =>
        /\ Len(requested) <= 1
        /\ (requested # <<>> => requested = <<assets[1]>> /\ selected = assets[1])
        /\ (file_path # <<>> => file_path[Len(file_path)] = assets[1].name)
        /\ \A n \in Names :
              (assets = <<>> \/ n # assets[1].name) => files[n] = files0[n]
        /\ (pc = "exit" /\ assets # <<>> => Len(requested) = 1)

C7_Witness ==
    /\ auto
    /\ pc = "exit"
    /\ Len(assets) = 3
    /\ assets[1] # assets[2]
    /\ assets[1] # assets[3]
    /\ DlSucceeded

\* C8: in auto mode the process exits 0 exactly when download_asset returned
\* a path and the file holds the body; every failure (resolution, empty
\* list, status, transport, local I/O) exits 1.
C8_AutoExitCode ==
    (auto /\ pc = "exit") =>
        /\ exitCode \in {0, 1}
        /\ (exitCode = 0 <=> (DlSucceeded /\ Dest = File(body)))
        /\ (fault # "none" => exitCode = 1)

C8_Witness ==
    /\ auto
    /\ pc = "exit"
    /\ fault = "localio_dir"
    /\ dpc = "raised"
    /\ exitCode = 1

\* C9 (as claimed): an interactive session does not end after a download
\* that failed by status or transport error without the operator having been
\* prompted again.
C9_FailedDownloadReprompts ==
    (~auto /\ pc = "exit" /\ DlFailed /\ fault \in {"status", "transport"}) =>
        prompts > 1

ChoiceValid ==
    /\ ~choice.eof
    /\ PyInt(choice.text).ok
    /\ 1 <= PyInt(choice.text).val
    /\ PyInt(choice.text).val <= Len(assets)

\* what the prompt did, given which inputs count as the quit command
PromptOutcome(quit) ==
    (~auto /\ prompts > 0) =>
        IF ChoiceValid
        THEN /\ requested = <<assets[PyInt(choice.text).val]>>
             /\ selected = assets[PyInt(choice.text).val]
        ELSE /\ requested = <<>>
             /\ dpc = "idle"
             /\ files = files0
             /\ pc \in {"return", "exit"}
             /\ ret = (choice.eof \/ choice.text \in quit)

\* C10 (amended): interactive mode starts a download only for an integer
\* choice k with 1 <= k <= n, for the asset at position k-1; every other
\* input starts no download and writes nothing; 'q', 'Q' and end of input
\* are reported as success, the other inputs as failure.
C10_ChoiceInRangeOnly ==
    PromptOutcome({<<"q">>, <<"Q">>})

C10_Witness ==
    /\ ~auto
    /\ choice.text = <<"2">>
    /\ Len(assets) = 3
    /\ selected = assets[2]
    /\ assets[2] # assets[1]
    /\ DlSucceeded

\* C10 (as claimed): as above, with 'q' and end of input the only inputs
\* reported as success.
C10_OnlyLowercaseQuit ==
    PromptOutcome({<<"q">>})
====
